---- MODULE Spec2Model ----
(***************************************************************************)
(* Model of the movement-direction pipeline of src/src/analysis.rs:        *)
(* Smoothing -> energy projection -> QuantileDenoiser -> MovementDetection,*)
(* composed by Analysis::new and Analysis::add_measurement.                *)
(*                                                                         *)
(* f32 values are modelled by a miniature binary floating-point format:    *)
(* integers (multiples of the smallest step) whose significand fits in     *)
(* MantissaBits bits; every arithmetic result is rounded to the nearest    *)
(* representable value, ties to even, as IEEE-754 does for f32.            *)
(* Angles are integers in milliradians.                                    *)
(***************************************************************************)
EXTENDS Integers, Sequences, FiniteSets, TLC

\* ---- bounds of the model ----
MantissaBits == 3      \* significand width of the miniature float (f32: 24)
MaxWindow == 6         \* window sizes passed to Analysis::new range over 0..MaxWindow
MaxTicks == 5          \* number of calls of Analysis::add_measurement explored

\* ---- values ----
None == "None"
Directions == {"Horizontal", "Vertical", "Diagonal"}
OptDirections == Directions \cup {None}

\* raw linear-acceleration vectors fed to the pipeline (FusionVector x, y, z)
Vectors == { <<0, 0, 0>>, <<4, 0, 4>>, <<-2, 4, 6>> }

\* configurations passed to Analysis::new
AccelThresholds == {1, 4}
AngleThresholds == { <<471, 942>>, <<0, 785>>, <<785, 1571>> }

\* ---- miniature floating point ----
Abs(n) == IF n < 0 THEN -n ELSE n

\* spacing of representable values at magnitude a >= 0
RECURSIVE Ulp(_)
Ulp(a) == IF a < 2 ^ MantissaBits THEN 1 ELSE 2 * Ulp(a \div 2)

Representable(n) == Abs(n) % Ulp(Abs(n)) = 0

\* the rational num/den (den > 0) rounded to the nearest representable value,
\* ties to the even significand
Round(num, den) ==
    LET a  == Abs(num)
        q  == a \div den
        u  == Ulp(q)
        lo == (q \div u) * u
        hi == lo + u
        m  == IF 2 * a < (lo + hi) * den THEN lo
              ELSE IF 2 * a > (lo + hi) * den THEN hi
              ELSE IF (lo \div u) % 2 = 0 THEN lo ELSE hi
    IN IF num < 0 THEN -m ELSE m

FAdd(a, b) == Round(a + b, 1)
FSub(a, b) == Round(a - b, 1)
FMul(a, b) == Round(a * b, 1)
FDiv(a, b) == IF b < 0 THEN Round(-a, -b) ELSE Round(a, b)

VecSub(a, b) == << FSub(a[1], b[1]), FSub(a[2], b[2]), FSub(a[3], b[3]) >>

\* VecDeque::pop_front: removes the oldest element, no effect when empty
PopFront(s) == IF s = << >> THEN s ELSE Tail(s)

\* Vec::sort_by(|a, b| a.partial_cmp(b).unwrap()): ascending order
Sorted(s) == SortSeq(s, LAMBDA a, b : a < b)

\* ---- Smoothing ----
RECURSIVE SumPrefix(_, _, _)
\* the running sum of component i over the first n elements, oldest first
SumPrefix(ms, i, n) ==
    IF n = 0 THEN 0 ELSE FAdd(SumPrefix(ms, i, n - 1), ms[n][i])

\* faulty variant: the sample just pushed is left out of the sum
SumComponentSkipNewest(ms, i) == SumPrefix(ms, i, Len(ms) - 1)

\* sum_x, sum_y, sum_z of Smoothing::compute_smoothing_vector
SumComponent(ms, i) == SumPrefix(ms, i, Len(ms))

\* faulty variant: the mean divides by the configured capacity
ComputeSmoothingVectorByCapacity(sm) ==
    LET num_elems == sm.smoothing_window_size
    IN << FDiv(SumComponent(sm.measurements, 1), num_elems),
          FDiv(SumComponent(sm.measurements, 2), num_elems),
          FDiv(SumComponent(sm.measurements, 3), num_elems) >>

\* Smoothing::compute_smoothing_vector
ComputeSmoothingVector(sm) ==
    LET num_elems == Len(sm.measurements)
    IN << FDiv(SumComponent(sm.measurements, 1), num_elems),
          FDiv(SumComponent(sm.measurements, 2), num_elems),
          FDiv(SumComponent(sm.measurements, 3), num_elems) >>

\* faulty variant: the window is evicted only after it has outgrown its capacity
SmoothingAddMeasurementLateEvict(sm, linear_acceleration) ==
    LET kept == IF Len(sm.measurements) > sm.smoothing_window_size
                THEN PopFront(sm.measurements) ELSE sm.measurements
        self == [sm EXCEPT !.measurements = Append(kept, linear_acceleration)]
        sv   == ComputeSmoothingVector(self)
    IN [self |-> self, ret |-> VecSub(linear_acceleration, sv)]

\* Smoothing::add_measurement: the new Smoothing and the returned vector
SmoothingAddMeasurement(sm, linear_acceleration) ==
    LET kept == IF Len(sm.measurements) >= sm.smoothing_window_size
                THEN PopFront(sm.measurements) ELSE sm.measurements
        self == [sm EXCEPT !.measurements = Append(kept, linear_acceleration)]
        sv   == ComputeSmoothingVector(self)
    IN [self |-> self, ret |-> VecSub(linear_acceleration, sv)]

\* ---- QuantileDenoiser ----
QUANTILE_NUM == 3      \* QUANTILE = 0.75 = QUANTILE_NUM / QUANTILE_DEN
QUANTILE_DEN == 4

\* QuantileDenoiser::new
QuantileDenoiserNew(detection_window_size) ==
    [ horizontal_measurements        |-> << >>,
      vertical_measurements          |-> << >>,
      horizontal_measurements_buffer |-> << >>,
      vertical_measurements_buffer   |-> << >>,
      detection_window_size          |-> detection_window_size ]

\* faulty variant: the median instead of the 0.75 quantile
QuantilePosHalf(len) == len \div 2

\* faulty variant: the index is rounded up instead of truncated
QuantilePosCeil(len) == (len * QUANTILE_NUM + QUANTILE_DEN - 1) \div QUANTILE_DEN

\* (len as f32 * QUANTILE) as usize
QuantilePos(len) == (len * QUANTILE_NUM) \div QUANTILE_DEN

\* faulty variant: the scratch buffers are extended without being cleared
ComputeQuantileDetectionAccelNoClear(q) ==
    LET hb  == Sorted(q.horizontal_measurements_buffer \o q.horizontal_measurements)
        vb  == Sorted(q.vertical_measurements_buffer \o q.vertical_measurements)
        pos == QuantilePos(Len(hb))
        self == [q EXCEPT !.horizontal_measurements_buffer = hb,
                          !.vertical_measurements_buffer = vb]
    IN IF pos < Len(hb) /\ pos < Len(vb)
       THEN [self |-> self, panicked |-> FALSE, ret |-> << hb[pos + 1], vb[pos + 1] >>]
       ELSE [self |-> self, panicked |-> TRUE, ret |-> << 0, 0 >>]

\* faulty variant: the vertical scratch buffer is filled from the horizontal window
ComputeQuantileDetectionAccelCrossed(q) ==
    IF \/ q.horizontal_measurements = << >>
       \/ Len(q.vertical_measurements) # Len(q.horizontal_measurements)
    THEN [self |-> q, panicked |-> TRUE, ret |-> << 0, 0 >>]
    ELSE
    LET hb  == Sorted(q.horizontal_measurements)
        vb  == Sorted(q.horizontal_measurements)
        pos == QuantilePos(Len(hb))
        self == [q EXCEPT !.horizontal_measurements_buffer = hb,
                          !.vertical_measurements_buffer = vb]
    IN IF pos < Len(hb) /\ pos < Len(vb)
       THEN [self |-> self, panicked |-> FALSE, ret |-> << hb[pos + 1], vb[pos + 1] >>]
       ELSE [self |-> self, panicked |-> TRUE, ret |-> << 0, 0 >>]

\* QuantileDenoiser::compute_quantile_detection_accel: the new denoiser, whether
\* an assertion or an index check panicked, and the returned pair
ComputeQuantileDetectionAccel(q) ==
    IF \/ q.horizontal_measurements = << >>
       \/ Len(q.vertical_measurements) # Len(q.horizontal_measurements)
    THEN [self |-> q, panicked |-> TRUE, ret |-> << 0, 0 >>]
    ELSE
    LET hb  == Sorted(q.horizontal_measurements)
        vb  == Sorted(q.vertical_measurements)
        pos == QuantilePos(Len(hb))
        self == [q EXCEPT !.horizontal_measurements_buffer = hb,
                          !.vertical_measurements_buffer = vb]
    IN IF pos < Len(hb) /\ pos < Len(vb)
       THEN [self |-> self, panicked |-> FALSE, ret |-> << hb[pos + 1], vb[pos + 1] >>]
       ELSE [self |-> self, panicked |-> TRUE, ret |-> << 0, 0 >>]

\* faulty variant: the newest element is dropped instead of the oldest
QuantileAddMeasurementPopBack(q, x, y) ==
    LET full == Len(q.horizontal_measurements) >= q.detection_window_size
        DropLast(s) == IF s = << >> THEN s ELSE SubSeq(s, 1, Len(s) - 1)
        h == IF full THEN DropLast(q.horizontal_measurements)
             ELSE q.horizontal_measurements
        v == IF full THEN DropLast(q.vertical_measurements)
             ELSE q.vertical_measurements
    IN ComputeQuantileDetectionAccel(
           [q EXCEPT !.horizontal_measurements = Append(h, x),
                     !.vertical_measurements = Append(v, y)])

\* faulty variant: a full window is never evicted
QuantileAddMeasurementNoEvict(q, x, y) ==
    ComputeQuantileDetectionAccel(
        [q EXCEPT !.horizontal_measurements = Append(@, x),
                  !.vertical_measurements = Append(@, y)])

\* QuantileDenoiser::add_measurement
QuantileAddMeasurement(q, x, y) ==
    LET full == Len(q.horizontal_measurements) >= q.detection_window_size
        h == IF full THEN PopFront(q.horizontal_measurements)
             ELSE q.horizontal_measurements
        v == IF full THEN PopFront(q.vertical_measurements)
             ELSE q.vertical_measurements
    IN ComputeQuantileDetectionAccel(
           [q EXCEPT !.horizontal_measurements = Append(h, x),
                     !.vertical_measurements = Append(v, y)])

\* ---- AverageDenoiser ----
\* AverageDenoiser::new
AverageDenoiserNew(detection_window_size) ==
    [ horizontal_measurements |-> << >>,
      vertical_measurements   |-> << >>,
      detection_window_size   |-> detection_window_size ]

RECURSIVE SumSeq(_, _)
\* Iterator::sum::<f32>() over the first n elements, oldest first
SumSeq(s, n) == IF n = 0 THEN 0 ELSE FAdd(SumSeq(s, n - 1), s[n])

\* AverageDenoiser::compute_average_detection_accel: both sums are divided by
\* the length of the horizontal window; dividing by zero yields NaN
ComputeAverageDetectionAccel(a) ==
    LET len == Len(a.horizontal_measurements)
    IN IF len = 0 THEN << "NaN", "NaN" >>
       ELSE << FDiv(SumSeq(a.horizontal_measurements, len), len),
               FDiv(SumSeq(a.vertical_measurements, Len(a.vertical_measurements)), len) >>

\* faulty variant: only the horizontal window is evicted
AverageAddMeasurementPopOne(a, x, y) ==
    LET full == Len(a.horizontal_measurements) >= a.detection_window_size
        h == IF full THEN PopFront(a.horizontal_measurements)
             ELSE a.horizontal_measurements
        self == [a EXCEPT !.horizontal_measurements = Append(h, x),
                          !.vertical_measurements = Append(@, y)]
    IN [self |-> self, ret |-> ComputeAverageDetectionAccel(self)]

\* AverageDenoiser::add_measurement: the new denoiser and the returned pair
AverageAddMeasurement(a, x, y) ==
    LET full == Len(a.horizontal_measurements) >= a.detection_window_size
        h == IF full THEN PopFront(a.horizontal_measurements)
             ELSE a.horizontal_measurements
        v == IF full THEN PopFront(a.vertical_measurements)
             ELSE a.vertical_measurements
        self == [a EXCEPT !.horizontal_measurements = Append(h, x),
                          !.vertical_measurements = Append(v, y)]
    IN [self |-> self, ret |-> ComputeAverageDetectionAccel(self)]

\* ---- MovementDetection ----
\* f32::atan2(y, x) on the first quadrant (energies are sums of squares), in
\* milliradians: the rational approximation
\*   (pi/2) * (b*x*y + y^2) / (x^2 + 2*b*x*y + y^2),  b = 3/5,
\* which is 0 for y = 0, pi/4 for x = y and pi/2 for x = 0
Atan2(y, x) ==
    IF x = 0 /\ y = 0 THEN 0
    ELSE (1571 * (3 * x * y + 5 * y * y))
             \div (5 * x * x + 6 * x * y + 5 * y * y)

\* faulty variant: a value equal to the threshold counts as below it
BelowAccelerationThresholdInclusive(md, x_accel, y_accel) ==
    x_accel <= md.acceleration_threshold /\ y_accel <= md.acceleration_threshold

\* faulty variant: the comparisons are the wrong way round
BelowAccelerationThresholdInverted(md, x_accel, y_accel) ==
    x_accel > md.acceleration_threshold /\ y_accel > md.acceleration_threshold

\* MovementDetection::below_acceleration_threshold
BelowAccelerationThreshold(md, x_accel, y_accel) ==
    x_accel < md.acceleration_threshold /\ y_accel < md.acceleration_threshold

\* faulty variant: hysteresis, the previous label is held while below threshold
NextDirectionHold(md, x_accel, y_accel) ==
    LET angle == Atan2(y_accel, x_accel)
        next_state ==
            IF BelowAccelerationThreshold(md, x_accel, y_accel)
            THEN md.prev_direction
            ELSE IF md.angle_low_threshold < angle /\ angle < md.angle_high_threshold
                 THEN "Diagonal"
                 ELSE IF angle < md.angle_low_threshold THEN "Horizontal"
                 ELSE "Vertical"
    IN [self |-> [md EXCEPT !.prev_direction = next_state], ret |-> next_state]

\* faulty variant: the computed value is returned but not stored
NextDirectionNoStore(md, x_accel, y_accel) ==
    LET angle == Atan2(y_accel, x_accel)
        next_state ==
            IF BelowAccelerationThreshold(md, x_accel, y_accel)
            THEN None
            ELSE IF md.angle_low_threshold < angle /\ angle < md.angle_high_threshold
                 THEN "Diagonal"
                 ELSE IF angle < md.angle_low_threshold THEN "Horizontal"
                 ELSE "Vertical"
    IN [self |-> md, ret |-> next_state]

\* MovementDetection::next_direction: the new classifier and the returned label
NextDirection(md, x_accel, y_accel) ==
    LET angle == Atan2(y_accel, x_accel)
        next_state ==
            IF BelowAccelerationThreshold(md, x_accel, y_accel)
            THEN None
            ELSE IF md.angle_low_threshold < angle /\ angle < md.angle_high_threshold
                 THEN "Diagonal"
                 ELSE IF angle < md.angle_low_threshold THEN "Horizontal"
                 ELSE "Vertical"
    IN [self |-> [md EXCEPT !.prev_direction = next_state], ret |-> next_state]

\* ---- Analysis ----
\* faulty variant: equal window sizes are accepted
AnalysisNewAssertsLax(smoothing_window_size, detection_window_size) ==
    /\ smoothing_window_size > 0
    /\ detection_window_size > 0
    /\ detection_window_size <= smoothing_window_size

\* the three assertions of Analysis::new
AnalysisNewAsserts(smoothing_window_size, detection_window_size) ==
    /\ smoothing_window_size > 0
    /\ detection_window_size > 0
    /\ detection_window_size < smoothing_window_size

\* the energy projection of Analysis::add_measurement: <<horiz, verti>>
Energies(smoothed) ==
    << FAdd(FMul(smoothed[1], smoothed[1]), FMul(smoothed[2], smoothed[2])),
       FMul(smoothed[3], smoothed[3]) >>

Configs ==
    [ smoothing_window_size : 0..MaxWindow,
      detection_window_size : 0..MaxWindow,
      acceleration_threshold : AccelThresholds,
      angles : AngleThresholds ]

NoVector == << 0, 0, 0 >>

\* ---- MovementDirection serialisation and the 'sense loop of main ----
\* faulty variant: the digit is the position in the enum declaration
AsDigitDeclarationOrder(dir) ==
    CASE dir = "Horizontal" -> 0
      [] dir = "Vertical"   -> 1
      [] dir = "Diagonal"   -> 2

\* MovementDirection::as_digit
AsDigit(dir) ==
    CASE dir = "Vertical"   -> 0
      [] dir = "Horizontal" -> 1
      [] dir = "Diagonal"   -> 2

\* MovementDirection::as_char
AsChar(dir) ==
    CASE dir = "Vertical"   -> "V"
      [] dir = "Horizontal" -> "H"
      [] dir = "Diagonal"   -> "D"

MOD_DETECTION == 25    \* 8 Hz reports at a 200 Hz sample rate
MOD_MQTT_PING == 800   \* a ping every 4 s at a 200 Hz sample rate

\* faulty variant: the ping falls due on the multiples of MOD_MQTT_PING themselves
ShouldSendPingNoOffset(id_now) == id_now % MOD_MQTT_PING = 0

\* let should_send_ping = (id + 1) % MOD_MQTT_PING == 0;
ShouldSendPing(id_now) == (id_now + 1) % MOD_MQTT_PING = 0

\* let should_send_sample = id % MOD_DETECTION == 0;
ShouldSendSample(id_now) == id_now % MOD_DETECTION = 0

\* no payload
NoEvent == << >>

\* faulty variant: a report is sent on every reporting tick, label or not
EventToSendAlways(should_send_sample, new_direction) ==
    IF should_send_sample
    THEN << 48 + (IF new_direction = None THEN 0 ELSE AsDigit(new_direction)) >>
    ELSE NoEvent

\* the payload handed to client.send_message on a tick, if any:
\* if should_send_sample { if let Some(dir) = new_direction { [0x30 + dir.as_digit()] } }
EventToSend(should_send_sample, new_direction) ==
    IF should_send_sample /\ new_direction # None
    THEN << 48 + AsDigit(new_direction) >>
    ELSE NoEvent

\* the outcome of imu.read_9dof() followed by tracker.update(): Ok with the
\* vector tracker.linear_accel, or an error
ReadOk(accel) == [ ok |-> TRUE, accel |-> accel ]
ReadError == [ ok |-> FALSE, accel |-> NoVector ]

\* match imu.read_9dof().await: on Ok the pipeline is fed tracker.linear_accel,
\* on Err the tick is abandoned. an is the Analysis, read the outcome of the read.
SenseStep(an, read) ==
    IF ~read.ok
    THEN [ an |-> an, invoked |-> 0, panicked |-> FALSE, new_direction |-> None,
           smoothed |-> NoVector, energy |-> << 0, 0 >>, denoised |-> << 0, 0 >> ]
    ELSE LET s == SmoothingAddMeasurement(an.smoothing, read.accel)
             e == Energies(s.ret)
             d == QuantileAddMeasurement(an.movement_computation, e[1], e[2])
             n == NextDirection(an.movement_detection, d.ret[1], d.ret[2])
         IN [ an |-> [ smoothing |-> s.self,
                       movement_computation |-> d.self,
                       movement_detection |->
                           IF d.panicked THEN an.movement_detection ELSE n.self ],
              invoked |-> 1, panicked |-> d.panicked,
              new_direction |-> IF d.panicked THEN None ELSE n.ret,
              smoothed |-> s.ret, energy |-> e, denoised |-> d.ret ]

\* results of client.send_message / client.send_ping: Ok(()), Err(Success),
\* Err(any other reason code)
SendResults == { "Ok", "ErrSuccess", "ErrOther" }

VARIABLES
    status,               \* "start", "ready" (constructed), "aborted" (Analysis::new
                          \* panicked) or "panicked" (add_measurement panicked)
    args,                 \* the arguments Analysis::new was called with
    smoothing,            \* Analysis.smoothing
    movement_computation, \* Analysis.movement_detection.movement_computation
    movement_detection,   \* Analysis.movement_detection, its other fields
    smoothed,             \* last call: the vector returned by Smoothing::add_measurement
    energy,               \* last call: <<horiz, verti>>
    denoised,             \* last call: the pair returned by the denoiser
    prev_before,          \* last call: prev_direction when next_direction was entered
    direction,            \* last call: the returned Option<MovementDirection>
    inputs,               \* history: every vector passed to add_measurement
    energies,             \* history: every <<horiz, verti>> pushed into the denoiser
    \* two runs of the denoisers used on their own, for comparison
    den_mode,             \* "none", or the stream both runs share: "h" or "v"
    den_q,                \* the two QuantileDenoiser
    den_a,                \* the two AverageDenoiser
    den_q_ret,            \* last call: the pairs the two QuantileDenoiser returned
    den_a_ret,            \* last call: the pairs the two AverageDenoiser returned
    den_panicked,         \* a QuantileDenoiser call panicked
    den_calls,            \* number of add_measurement calls made on each denoiser
    \* the 'sense loop of main
    loop_pc,              \* "off", "connect" (outside 'sense) or "sense"
    id,                   \* the tick counter of 'sense
    read_ok,              \* last tick: "ok", "err", or "none" before the first tick
    invoked,              \* last tick: number of calls of Analysis::add_measurement
    published,            \* last tick: the payload given to send_message, << >> if none
    printed,              \* last tick: the character printed, or "none"
    pinged,               \* last tick: send_ping was called
    sample_due,           \* last tick: should_send_sample
    ping_due              \* last tick: should_send_ping

pipeVars == << status, args, smoothing, movement_computation, movement_detection,
               smoothed, energy, denoised, prev_before, direction, inputs, energies >>
denVars  == << den_mode, den_q, den_a, den_q_ret, den_a_ret, den_panicked, den_calls >>
loopVars == << loop_pc, id, read_ok, invoked, published, printed, pinged,
               sample_due, ping_due >>

vars == << status, args, smoothing, movement_computation, movement_detection,
           smoothed, energy, denoised, prev_before, direction, inputs, energies,
           den_mode, den_q, den_a, den_q_ret, den_a_ret, den_panicked, den_calls,
           loop_pc, id, read_ok, invoked, published, printed, pinged,
           sample_due, ping_due >>

Init ==
    /\ status = "start"
    /\ args = [ smoothing_window_size |-> 0, detection_window_size |-> 0,
                acceleration_threshold |-> 0, angles |-> << 0, 0 >> ]
    /\ smoothing = [ measurements |-> << >>, smoothing_window_size |-> 0 ]
    /\ movement_computation = QuantileDenoiserNew(0)
    /\ movement_detection = [ acceleration_threshold |-> 0, angle_low_threshold |-> 0,
                              angle_high_threshold |-> 0, prev_direction |-> None ]
    /\ smoothed = NoVector
    /\ energy = << 0, 0 >>
    /\ denoised = << 0, 0 >>
    /\ prev_before = None
    /\ direction = None
    /\ inputs = << >>
    /\ energies = << >>
    /\ den_mode = "none"
    /\ den_q = << QuantileDenoiserNew(0), QuantileDenoiserNew(0) >>
    /\ den_a = << AverageDenoiserNew(0), AverageDenoiserNew(0) >>
    /\ den_q_ret = << << 0, 0 >>, << 0, 0 >> >>
    /\ den_a_ret = << << 0, 0 >>, << 0, 0 >> >>
    /\ den_panicked = FALSE
    /\ den_calls = 0
    /\ loop_pc = "off"
    /\ id = 0
    /\ read_ok = "none"
    /\ invoked = 0
    /\ published = NoEvent
    /\ printed = "none"
    /\ pinged = FALSE
    /\ sample_due = FALSE
    /\ ping_due = FALSE

\* Analysis::new called with one of the given configurations
ConstructFrom(configs) ==
    /\ status = "start"
    /\ \E c \in configs :
        /\ args' = c
        /\ IF AnalysisNewAsserts(c.smoothing_window_size, c.detection_window_size)
           THEN /\ status' = "ready"
                /\ smoothing' = [ measurements |-> << >>,
                                  smoothing_window_size |-> c.smoothing_window_size ]
                /\ movement_computation' = QuantileDenoiserNew(c.detection_window_size)
                /\ movement_detection' =
                       [ acceleration_threshold |-> c.acceleration_threshold,
                         angle_low_threshold    |-> c.angles[1],
                         angle_high_threshold   |-> c.angles[2],
                         prev_direction         |-> None ]
           ELSE /\ status' = "aborted"
                /\ UNCHANGED << smoothing, movement_computation, movement_detection >>
    /\ UNCHANGED << smoothed, energy, denoised, prev_before, direction, inputs, energies >>

\* Analysis::add_measurement called with one of the given vectors
FeedFrom(vectors) ==
    /\ status = "ready"
    /\ Len(inputs) < MaxTicks
    /\ \E linear_acceleration \in vectors :
       \E s \in { SmoothingAddMeasurement(smoothing, linear_acceleration) } :
       \E e \in { Energies(s.ret) } :
       \E d \in { QuantileAddMeasurement(movement_computation, e[1], e[2]) } :
           /\ inputs' = Append(inputs, linear_acceleration)
           /\ energies' = Append(energies, e)
           /\ smoothing' = s.self
           /\ smoothed' = s.ret
           /\ energy' = e
           /\ movement_computation' = d.self
           /\ IF d.panicked
              THEN /\ status' = "panicked"
                   /\ UNCHANGED << movement_detection, denoised, prev_before, direction >>
              ELSE \E n \in { NextDirection(movement_detection, d.ret[1], d.ret[2]) } :
                   /\ status' = "ready"
                   /\ denoised' = d.ret
                   /\ prev_before' = movement_detection.prev_direction
                   /\ movement_detection' = n.self
                   /\ direction' = n.ret
    /\ UNCHANGED args

\* Analysis::new(smoothing_window_size, detection_window_size,
\*               acceleration_threshold, angle_low_threshold, angle_high_threshold)
AnalysisNew ==
    /\ ConstructFrom(Configs)
    /\ UNCHANGED << denVars, loopVars >>

\* Analysis::add_measurement(linear_acceleration)
AnalysisAddMeasurement ==
    /\ FeedFrom(Vectors)
    /\ UNCHANGED << denVars, loopVars >>

Next == AnalysisNew \/ AnalysisAddMeasurement

Spec == Init /\ [][Next]_vars

\* ---- the end-to-end scenario ----
\* Analysis::new(4, 2, 0.05, 0.3, 1.2). Accelerations are in units of 1/4 and
\* energies in units of 1/16, so every energy is an integer and e < 0.05 (0.8
\* units) is e < 1; angles are 300 and 1200 milliradians.
EndToEndConfig ==
    [ smoothing_window_size |-> 4, detection_window_size |-> 2,
      acceleration_threshold |-> 1, angles |-> << 300, 1200 >> ]

\* the raw vector (1, 0, 0) in units of 1/4
UnitX == << 4, 0, 0 >>

EndToEndVectors == { UnitX, << 0, 0, 0 >>, << 0, 0, 4 >> }

EndToEndNew ==
    /\ ConstructFrom({ EndToEndConfig })
    /\ UNCHANGED << denVars, loopVars >>

EndToEndAddMeasurement ==
    /\ FeedFrom(EndToEndVectors)
    /\ UNCHANGED << denVars, loopVars >>

NextEndToEnd == EndToEndNew \/ EndToEndAddMeasurement

SpecEndToEnd == Init /\ [][NextEndToEnd]_vars

\* ---- the denoisers on their own: two runs sharing one input stream ----
MaxDenoiserWindow == 3  \* detection_window_size ranges over 1..MaxDenoiserWindow
MaxCalls == 4           \* number of add_measurement calls on each denoiser

DenoiserValues == { 1, 6 }

\* QuantileDenoiser::new and AverageDenoiser::new, twice each
DenoiserNew ==
    /\ den_mode = "none"
    /\ \E mode \in { "h", "v" } : \E w \in 1..MaxDenoiserWindow :
        /\ den_mode' = mode
        /\ den_q' = << QuantileDenoiserNew(w), QuantileDenoiserNew(w) >>
        /\ den_a' = << AverageDenoiserNew(w), AverageDenoiserNew(w) >>
    /\ UNCHANGED << den_q_ret, den_a_ret, den_panicked, den_calls >>
    /\ UNCHANGED << pipeVars, loopVars >>

\* add_measurement on all four denoisers: the two runs get the same value in
\* the shared stream and arbitrary values in the other one
DenoiserAddMeasurement ==
    /\ den_mode # "none"
    /\ ~den_panicked
    /\ den_calls < MaxCalls
    /\ \E shared \in DenoiserValues : \E o1 \in DenoiserValues : \E o2 \in DenoiserValues :
       \E in1 \in { IF den_mode = "h" THEN << shared, o1 >> ELSE << o1, shared >> } :
       \E in2 \in { IF den_mode = "h" THEN << shared, o2 >> ELSE << o2, shared >> } :
       \E q1 \in { QuantileAddMeasurement(den_q[1], in1[1], in1[2]) } :
       \E q2 \in { QuantileAddMeasurement(den_q[2], in2[1], in2[2]) } :
       \E a1 \in { AverageAddMeasurement(den_a[1], in1[1], in1[2]) } :
       \E a2 \in { AverageAddMeasurement(den_a[2], in2[1], in2[2]) } :
           /\ den_q' = << q1.self, q2.self >>
           /\ den_a' = << a1.self, a2.self >>
           /\ den_panicked' = (q1.panicked \/ q2.panicked)
           /\ den_q_ret' = << q1.ret, q2.ret >>
           /\ den_a_ret' = << a1.ret, a2.ret >>
    /\ den_calls' = den_calls + 1
    /\ UNCHANGED den_mode
    /\ UNCHANGED << pipeVars, loopVars >>

NextDenoiser == DenoiserNew \/ DenoiserAddMeasurement

SpecDenoiser == Init /\ [][NextDenoiser]_vars

\* ---- main: the 'sense loop ----
LoopSmoothingWindow == 2   \* Analysis::default() uses 100
LoopDetectionWindow == 1   \* Analysis::default() uses 30
MaxLoopTicks == 60         \* number of ticks of 'sense explored per connection

\* Analysis::default(), with the windows scaled down; 0.14 lies between the
\* energies 0 and 1, the angles are 0.6 * pi/4 and 1.2 * pi/4 in milliradians
LoopConfig ==
    [ smoothing_window_size |-> LoopSmoothingWindow,
      detection_window_size |-> LoopDetectionWindow,
      acceleration_threshold |-> 1, angles |-> << 471, 942 >> ]

\* values of tracker.linear_accel
LoopVectors == { << 0, 0, 0 >>, << 4, 0, 0 >>, << 0, 0, 4 >>, << 4, 0, 4 >> }

\* let mut analysis = Analysis::default();
MainStart ==
    /\ loop_pc = "off"
    /\ ConstructFrom({ LoopConfig })
    /\ loop_pc' = "connect"
    /\ UNCHANGED << id, read_ok, invoked, published, printed, pinged,
                    sample_due, ping_due >>
    /\ UNCHANGED denVars

\* the network and the broker are up: 'sense is entered with id = 0
Connect ==
    /\ loop_pc = "connect"
    /\ status = "ready"
    /\ loop_pc' = "sense"
    /\ id' = 0
    /\ read_ok' = "none"
    /\ invoked' = 0
    /\ published' = NoEvent
    /\ printed' = "none"
    /\ pinged' = FALSE
    /\ sample_due' = FALSE
    /\ ping_due' = FALSE
    /\ UNCHANGED << pipeVars, denVars >>

\* one iteration of 'sense, the IMU delivering one of the given vectors or an
\* error, while fewer than max_ticks iterations have run on this connection
SenseTickFrom(vectors, max_ticks) ==
    /\ loop_pc = "sense"
    /\ status = "ready"
    /\ id < max_ticks
    /\ \E read \in { ReadOk(v) : v \in vectors } \cup { ReadError } :
       \E next_id \in { id + 1 } :   \* id: u32, max_ticks keeps it below 2^32
       \E should_send_sample \in { ShouldSendSample(next_id) } :
       \E should_send_ping \in { ShouldSendPing(next_id) } :
       \E r \in { SenseStep([ smoothing |-> smoothing,
                              movement_computation |-> movement_computation,
                              movement_detection |-> movement_detection ], read) } :
       \E event \in { IF r.invoked = 1 /\ ~r.panicked
                      THEN EventToSend(should_send_sample, r.new_direction)
                      ELSE NoEvent } :
       \E send \in IF event # NoEvent THEN SendResults ELSE { "Ok" } :
       \E send_failed \in { event # NoEvent /\ send = "ErrOther" } :
       \E do_ping \in { read.ok /\ ~r.panicked /\ ~send_failed
                            /\ should_send_ping } :
       \E ping \in IF do_ping THEN SendResults ELSE { "Ok" } :
           /\ id' = next_id
           /\ read_ok' = IF read.ok THEN "ok" ELSE "err"
           /\ invoked' = r.invoked
           /\ smoothing' = r.an.smoothing
           /\ movement_computation' = r.an.movement_computation
           /\ movement_detection' = r.an.movement_detection
           /\ status' = IF r.panicked THEN "panicked" ELSE "ready"
           /\ IF r.invoked = 1
              THEN /\ smoothed' = r.smoothed
                   /\ energy' = r.energy
                   /\ IF r.panicked
                      THEN UNCHANGED << denoised, prev_before, direction >>
                      ELSE /\ denoised' = r.denoised
                           /\ prev_before' = movement_detection.prev_direction
                           /\ direction' = r.new_direction
              ELSE UNCHANGED << smoothed, energy, denoised, prev_before, direction >>
           /\ published' = event
           /\ printed' = IF event # NoEvent /\ r.new_direction # None /\ ~send_failed
                         THEN AsChar(r.new_direction) ELSE "none"
           /\ pinged' = do_ping
           /\ sample_due' = should_send_sample
           /\ ping_due' = should_send_ping
           /\ loop_pc' = IF send_failed \/ (do_ping /\ ping = "ErrOther")
                         THEN "connect" ELSE "sense"
    /\ UNCHANGED << args, inputs, energies >>
    /\ UNCHANGED denVars

\* one iteration of 'sense
SenseTick == SenseTickFrom(LoopVectors, MaxLoopTicks)

NextLoop == MainStart \/ Connect \/ SenseTick

SpecLoop == Init /\ [][NextLoop]_vars

\* ---- main: the schedule of reports and pings over a long connection ----
MaxScheduleTicks == 825   \* ticks of 'sense explored per connection

\* values of tracker.linear_accel: at rest, and one that moves
ScheduleVectors == { << 0, 0, 0 >>, << 4, 0, 4 >> }

\* one iteration of 'sense
SenseTickSchedule == SenseTickFrom(ScheduleVectors, MaxScheduleTicks)

NextSchedule == MainStart \/ Connect \/ SenseTickSchedule

SpecSchedule == Init /\ [][NextSchedule]_vars

TypeOK ==
    /\ status \in {"start", "ready", "aborted", "panicked"}
    /\ direction \in OptDirections
    /\ movement_detection.prev_direction \in OptDirections

\* ---- properties ----
\* add_measurement has returned at least once and has not panicked
Ticked == status = "ready" /\ inputs # << >>

Min(a, b) == IF a < b THEN a ELSE b
LastN(s, n) == SubSeq(s, Len(s) - n + 1, Len(s))
Elements(s) == { s[i] : i \in DOMAIN s }
Column(s, j) == [ i \in DOMAIN s |-> s[i][j] ]
\* the angle next_direction computed on the last call
LastAngle == Atan2(denoised[2], denoised[1])
LastBelow == /\ denoised[1] < args.acceleration_threshold
             /\ denoised[2] < args.acceleration_threshold

\* C1: when the denoised energies are not both below the acceleration
\* threshold, angle <= angle_low yields Horizontal, angle_low < angle <
\* angle_high yields Diagonal and angle >= angle_high yields Vertical.
C1_AngleDecidesLabel ==
    (Ticked /\ ~LastBelow) =>
        /\ LastAngle <= args.angles[1] => direction = "Horizontal"
        /\ (args.angles[1] < LastAngle /\ LastAngle < args.angles[2])
               => direction = "Diagonal"
        /\ LastAngle >= args.angles[2] => direction = "Vertical"

\* C2: the classifier returns the empty value exactly when both denoised
\* energies are strictly below acceleration_threshold, and one of the three
\* labels in every other case.
C2_NoMovementIffBelow ==
    Ticked =>
        /\ direction = None <=> LastBelow
        /\ ~LastBelow => direction \in Directions

\* an energy exactly equal to the threshold, the other one below it
C2_Witness ==
    /\ Ticked
    /\ denoised[1] = args.acceleration_threshold
    /\ denoised[2] < args.acceleration_threshold
    /\ direction \in Directions

\* C3: no window and no scratch buffer ever holds more elements than its
\* configured capacity.
C3_WindowsBounded ==
    /\ Len(smoothing.measurements) <= args.smoothing_window_size
    /\ Len(movement_computation.horizontal_measurements) <= args.detection_window_size
    /\ Len(movement_computation.vertical_measurements) <= args.detection_window_size
    /\ Len(movement_computation.horizontal_measurements_buffer)
           <= args.detection_window_size
    /\ Len(movement_computation.vertical_measurements_buffer)
           <= args.detection_window_size

\* every window is full and has already evicted
C3_Witness ==
    /\ Ticked
    /\ Len(inputs) > args.smoothing_window_size
    /\ Len(smoothing.measurements) = args.smoothing_window_size
    /\ Len(movement_computation.horizontal_measurements) = args.detection_window_size
    /\ Len(movement_computation.vertical_measurements_buffer)
           = args.detection_window_size

\* C4: after n pushes a window of capacity C holds exactly the last min(n, C)
\* pushed values, oldest first.
C4_WindowsAreLastPushed ==
    status \in {"ready", "panicked"} =>
        /\ smoothing.measurements
               = LastN(inputs, Min(Len(inputs), args.smoothing_window_size))
        /\ movement_computation.horizontal_measurements
               = LastN(Column(energies, 1),
                       Min(Len(energies), args.detection_window_size))
        /\ movement_computation.vertical_measurements
               = LastN(Column(energies, 2),
                       Min(Len(energies), args.detection_window_size))

\* both kinds of window have evicted a value that differs from what they hold
C4_Witness ==
    /\ Ticked
    /\ Len(inputs) > args.smoothing_window_size
    /\ inputs[1] \notin Elements(smoothing.measurements)
    /\ energies[1][1] \notin Elements(movement_computation.horizontal_measurements)
    /\ args.detection_window_size >= 2

\* C5: the smoothing output is the sample minus the component-wise mean of
\* the window taken after the push (the sample is its newest element), the
\* mean's divisor being the current number of elements.
C5_SmoothedIsSampleMinusMean ==
    Ticked =>
        LET w      == smoothing.measurements
            sample == inputs[Len(inputs)]
        IN /\ w[Len(w)] = sample
           /\ smoothed = [ i \in 1..3 |->
                             FSub(sample[i], FDiv(SumComponent(w, i), Len(w))) ]

\* warm-up: the window holds at least two elements, is not full, output nonzero
C5_Witness ==
    /\ Ticked
    /\ Len(smoothing.measurements) >= 2
    /\ Len(smoothing.measurements) < args.smoothing_window_size
    /\ smoothed # NoVector

\* the last smoothing_window_size inputs are all the same vector
ConstantInputHeld ==
    /\ Ticked
    /\ Len(inputs) >= args.smoothing_window_size
    /\ \A i \in 1..args.smoothing_window_size :
           inputs[Len(inputs) - i + 1] = inputs[Len(inputs)]

\* the window sum of the held vector is accumulated without rounding
ExactSums ==
    \A i \in 1..3 : \A k \in 1..args.smoothing_window_size :
        Representable(k * inputs[Len(inputs)][i])

\* C6 as stated: once the same vector has been fed for at least
\* smoothing_window_size consecutive ticks, the smoothing output is zero.
C6_ConstantInputGivesZero == ConstantInputHeld => smoothed = NoVector

\* C6 amended: once the same vector has been fed for at least
\* smoothing_window_size consecutive ticks, and every partial sum k * v
\* (k <= smoothing_window_size) of its components is exactly representable,
\* the smoothing output is the zero vector.
C6_ExactConstantInputGivesZero ==
    (ConstantInputHeld /\ ExactSums) => smoothed = NoVector

\* a nonzero vector held for a window of three or more, after another input
C6_Witness ==
    /\ ConstantInputHeld
    /\ ExactSums
    /\ args.smoothing_window_size >= 3
    /\ inputs[Len(inputs)] # NoVector
    /\ inputs[1] # inputs[Len(inputs)]

\* C7: the denoiser returns, for each stream, the element at zero-based index
\* floor(current_length * 0.75) of the window sorted ascending.
C7_QuantileIndex ==
    Ticked =>
        LET h   == movement_computation.horizontal_measurements
            v   == movement_computation.vertical_measurements
            idx == (Len(h) * 3) \div 4
        IN denoised = << Sorted(h)[idx + 1], Sorted(v)[idx + 1] >>

\* a window of capacity 5 after exactly 2 pushes of different values: the
\* index is 1 (the larger value), where floor(5 * 0.75) = 3 is out of range
C7_Witness ==
    /\ Ticked
    /\ args.detection_window_size = 5
    /\ Len(inputs) = 2
    /\ energies[2][1] > energies[1][1]
    /\ denoised[1] = energies[2][1]

\* C8: each value the denoiser returns is one of the last
\* min(n, detection_window_size) values pushed into that stream.
C8_QuantileFromWindow ==
    Ticked =>
        LET n == Min(Len(energies), args.detection_window_size)
        IN /\ denoised[1] \in Elements(LastN(Column(energies, 1), n))
           /\ denoised[2] \in Elements(LastN(Column(energies, 2), n))

\* a value larger than everything in the window has been evicted
C8_Witness ==
    /\ Ticked
    /\ Len(energies) > args.detection_window_size
    /\ args.detection_window_size >= 2
    /\ \E i \in 1..(Len(energies) - args.detection_window_size) :
           \A x \in Elements(movement_computation.horizontal_measurements) :
               energies[i][1] > x

\* C9: Analysis::new aborts exactly when smoothing_window_size = 0,
\* detection_window_size = 0 or detection_window_size >= smoothing_window_size,
\* and otherwise constructs the pipeline with the sizes it was given.
C9_ConstructionFailsIffInvalid ==
    status # "start" =>
        /\ status = "aborted" <=>
               \/ args.smoothing_window_size = 0
               \/ args.detection_window_size = 0
               \/ args.detection_window_size >= args.smoothing_window_size
        /\ status # "aborted" =>
               /\ smoothing.smoothing_window_size = args.smoothing_window_size
               /\ movement_computation.detection_window_size
                      = args.detection_window_size

\* construction was refused for two equal nonzero sizes
C9_Witness ==
    /\ status = "aborted"
    /\ args.smoothing_window_size = args.detection_window_size
    /\ args.detection_window_size > 0

\* C10: whatever previous direction the classifier had stored, the same
\* energies and thresholds give the same returned label and the same new state.
C10_PrevDirectionNoInfluence ==
    Ticked =>
        \A p \in OptDirections :
            NextDirection([movement_detection EXCEPT !.prev_direction = p],
                          denoised[1], denoised[2])
                = [self |-> movement_detection, ret |-> direction]

\* a stored label was overwritten by the empty value
C10_Witness ==
    /\ Ticked
    /\ prev_before \in Directions
    /\ direction = None

Max(a, b) == IF a > b THEN a ELSE b

\* every input since construction was the zero vector
AllZero == \A i \in DOMAIN inputs : inputs[i] = NoVector

\* C11: when every input since construction is the zero vector and
\* acceleration_threshold > 0, the denoiser returns (0, 0) on every tick and,
\* once max(smoothing_window_size, detection_window_size) ticks have elapsed,
\* the smoothing output is zero, both denoised energies are 0 and the
\* classifier returns no-movement.
C11_AllZeroGivesNoMovement ==
    (Ticked /\ AllZero /\ args.acceleration_threshold > 0) =>
        /\ denoised = << 0, 0 >>
        /\ Len(inputs) >= Max(args.smoothing_window_size, args.detection_window_size)
               => /\ smoothed = NoVector
                  /\ direction = None

\* zeros only, for longer than the larger window
C11_Witness ==
    /\ Ticked
    /\ AllZero
    /\ args.acceleration_threshold > 0
    /\ Len(inputs) > Max(args.smoothing_window_size, args.detection_window_size)
    /\ args.detection_window_size >= 2

\* the raw vector (1, 0, 0) on every tick so far
AllUnitX == \A i \in DOMAIN inputs : inputs[i] = UnitX

\* C12: the pipeline constructed with (4, 2, 0.05, 0.3, 1.2) and fed (1, 0, 0)
\* on five consecutive ticks has, on ticks 4 and 5, a zero smoothing output,
\* both denoised energies below the threshold, and returns no-movement.
C12_EndToEnd ==
    (Ticked /\ args = EndToEndConfig /\ AllUnitX /\ Len(inputs) \in { 4, 5 }) =>
        /\ smoothed = NoVector
        /\ denoised[1] < args.acceleration_threshold
        /\ denoised[2] < args.acceleration_threshold
        /\ direction = None

\* the fifth tick of the scenario
C12_Witness ==
    /\ Ticked
    /\ args = EndToEndConfig
    /\ AllUnitX
    /\ Len(inputs) = 5

\* C13: in two runs of the denoiser fed identical horizontal values and
\* arbitrary vertical values, the horizontal values returned are identical on
\* every call, for the quantile and for the mean variant; and symmetrically
\* with the streams exchanged.
C13_StreamsIndependent ==
    (den_calls > 0 /\ ~den_panicked) =>
        LET k == IF den_mode = "h" THEN 1 ELSE 2
        IN /\ den_q_ret[1][k] = den_q_ret[2][k]
           /\ den_a_ret[1][k] = den_a_ret[2][k]

\* the two runs differ in what they return for the stream they do not share
C13_Witness ==
    /\ den_mode = "h"
    /\ ~den_panicked
    /\ den_calls > den_q[1].detection_window_size
    /\ den_q_ret[1][2] # den_q_ret[2][2]
    /\ den_a_ret[1][2] # den_a_ret[2][2]

\* C14: on every tick from the first one, the smoothing mean divides by a
\* count >= 1 and the quantile index is strictly less than the length of the
\* sorted buffer of each stream: nothing divides by zero or indexes out of range.
C14_WarmUpSafe ==
    (status \in { "ready", "panicked" } /\ inputs # << >>) =>
        /\ status = "ready"
        /\ Len(smoothing.measurements) >= 1
        /\ LET hb == movement_computation.horizontal_measurements_buffer
               vb == movement_computation.vertical_measurements_buffer
           IN /\ (Len(hb) * 3) \div 4 < Len(hb)
              /\ (Len(hb) * 3) \div 4 < Len(vb)

\* the first tick of a pipeline whose windows both need more than one tick to fill
C14_Witness ==
    /\ Ticked
    /\ Len(inputs) = 1
    /\ args.detection_window_size >= 2
    /\ Len(movement_computation.horizontal_measurements_buffer) = 1

\* a tick of 'sense has run since the loop was entered
LoopTicked == read_ok # "none"

\* C16: Analysis::add_measurement is invoked exactly once on every tick of
\* 'sense, including the ticks on which the IMU read returns an error.
C16_InvokedOnEveryTick == LoopTicked => invoked = 1

\* C17: an event is published on a tick only if the pipeline returned a label
\* on that tick, and its payload encodes that label; when the pipeline returns
\* no-movement nothing is sent.
C17_EventOnlyWithLabel ==
    LoopTicked =>
        /\ published # NoEvent =>
               /\ invoked = 1
               /\ id % MOD_DETECTION = 0
               /\ direction \in Directions
               /\ published = << 48 + (CASE direction = "Vertical"   -> 0
                                         [] direction = "Horizontal" -> 1
                                         [] direction = "Diagonal"   -> 2) >>
        /\ (invoked = 0 \/ direction = None) => (published = NoEvent /\ printed = "none")

\* an event whose label differs from the label of the tick before
C17_Witness ==
    /\ LoopTicked
    /\ published # NoEvent
    /\ prev_before \in Directions
    /\ prev_before # direction

\* C18: as_digit maps Vertical, Horizontal, Diagonal to 0, 1, 2 and as_char
\* to V, H, D, both injectively; the published payload is the single byte
\* 0x30 + as_digit(label).
C18_Serialisation ==
    /\ AsDigit("Vertical") = 0 /\ AsDigit("Horizontal") = 1 /\ AsDigit("Diagonal") = 2
    /\ AsChar("Vertical") = "V" /\ AsChar("Horizontal") = "H" /\ AsChar("Diagonal") = "D"
    /\ \A d1 \in Directions : \A d2 \in Directions :
           d1 # d2 => (AsDigit(d1) # AsDigit(d2) /\ AsChar(d1) # AsChar(d2))
    /\ (LoopTicked /\ published # NoEvent) =>
           /\ Len(published) = 1
           /\ published[1] = 48 + AsDigit(direction)
           /\ published[1] \in { 48, 49, 50 }
           /\ printed \in { "none", AsChar(direction) }

\* the byte '2' was published and D printed for a Diagonal label
C18_Witness ==
    /\ LoopTicked
    /\ direction = "Diagonal"
    /\ published = << 50 >>
    /\ printed = "D"

\* C19: before the first tick the stored classifier state is empty; after
\* every transition it equals the value that transition returned.
C19_StoredIsReturned ==
    /\ (status = "ready" /\ inputs = << >>) => movement_detection.prev_direction = None
    /\ Ticked => movement_detection.prev_direction = direction

\* a label was returned that differs from the one stored before
C19_Witness ==
    /\ Ticked
    /\ direction \in Directions
    /\ prev_before \in Directions
    /\ prev_before # direction

\* C20: in every reachable state the horizontal and the vertical window of a
\* denoiser have the same length, and are non-empty once add_measurement has
\* been called, so the assertions of the quantile computation hold, its index
\* is valid for the vertical buffer, and the mean variant divides the vertical
\* sum by the vertical window's own length.
C20_WindowsSameLength ==
    /\ ~den_panicked
    /\ \A r \in 1..2 :
        /\ Len(den_q[r].horizontal_measurements) = Len(den_q[r].vertical_measurements)
        /\ Len(den_a[r].horizontal_measurements) = Len(den_a[r].vertical_measurements)
        /\ Len(den_q[r].horizontal_measurements_buffer)
               = Len(den_q[r].vertical_measurements_buffer)
        /\ den_calls > 0 =>
               /\ den_q[r].horizontal_measurements # << >>
               /\ den_a[r].horizontal_measurements # << >>
               /\ (Len(den_q[r].horizontal_measurements_buffer) * 3) \div 4
                      < Len(den_q[r].vertical_measurements_buffer)

\* the windows are full and have evicted
C20_Witness ==
    /\ den_mode # "none"
    /\ den_q[1].detection_window_size >= 2
    /\ den_calls > den_q[1].detection_window_size
    /\ Len(den_a[1].vertical_measurements) = den_a[1].detection_window_size
    /\ Len(den_q[1].vertical_measurements) = den_q[1].detection_window_size

\* C21: with id incremented once per tick, a detection report is due on the
\* ticks where id is a multiple of MOD_DETECTION = 25 and a ping on the ticks
\* where id + 1 is a multiple of MOD_MQTT_PING = 800; on no tick are both due.
C21_ReportAndPingNeverCoincide ==
    LoopTicked =>
        /\ sample_due = (id % 25 = 0)
        /\ ping_due = ((id + 1) % 800 = 0)
        /\ ~(sample_due /\ ping_due)
        /\ published # NoEvent => sample_due
        /\ pinged => ping_due
        /\ ~(published # NoEvent /\ pinged)

\* the first ping of a connection, on the tick before a report falls due
C21_Witness ==
    /\ LoopTicked
    /\ id = 799
    /\ ping_due
    /\ pinged
    /\ ~sample_due

\* every input since construction has been the same vector
AllSame == \A i \in DOMAIN inputs : inputs[i] = inputs[1]

\* on the first tick the smoothing output and both energies are zero, and the
\* pipeline returns no-movement when the threshold is positive
FirstTickIsZero ==
    (Ticked /\ Len(inputs) = 1) =>
        /\ smoothed = NoVector
        /\ energy = << 0, 0 >>
        /\ args.acceleration_threshold > 0 => direction = None

\* the sum of the smoothing window's contents, all equal to the last input,
\* has been accumulated without rounding
ExactSumsSoFar ==
    \A i \in 1..3 : \A k \in 1..Len(smoothing.measurements) :
        Representable(k * inputs[Len(inputs)][i])

\* C22 as stated: on the first tick the smoothing output is zero, both energies
\* are 0 and the pipeline returns no-movement when acceleration_threshold > 0;
\* while every input since construction has been the same vector, the pipeline
\* returns no-movement on every tick.
C22_SameInputGivesNoMovement ==
    /\ FirstTickIsZero
    /\ (Ticked /\ AllSame /\ args.acceleration_threshold > 0) => direction = None

\* C22 amended: the first tick as stated; while every input since construction
\* has been the same vector and the window sum accumulates without rounding,
\* the pipeline returns no-movement on every tick, warm-up included.
C22_ExactSameInputGivesNoMovement ==
    /\ FirstTickIsZero
    /\ (Ticked /\ AllSame /\ ExactSumsSoFar /\ args.acceleration_threshold > 0) =>
           (smoothed = NoVector /\ direction = None)

\* the same nonzero vector through warm-up and past the first eviction
C22_Witness ==
    /\ Ticked
    /\ AllSame
    /\ ExactSumsSoFar
    /\ inputs[1] # NoVector
    /\ args.smoothing_window_size >= 3
    /\ Len(inputs) > args.smoothing_window_size
    /\ direction = None

====
